---- MODULE Spec2Model ----
(***************************************************************************)
(* A model of changeblogger (src/changeblogger/main.py): the pipeline of   *)
(* GitChangesSummarizer.run and the pure functions it is built from.       *)
(*                                                                         *)
(* Text is modelled character by character: a Python str is a sequence of  *)
(* one-character strings, so "## Changelog" is a sequence of length 12.    *)
(* An optional value (None or a str) is a record [some, text].  The two     *)
(* characters a TLA+ string literal cannot hold are named: NUL and BQ.     *)
(***************************************************************************)
EXTENDS Integers, Sequences, FiniteSets, TLC

----------------------------------------------------------------------------
(* Characters and strings                                                  *)

\* the null character, "\x00" in Python
NUL == "NUL"

\* the backquote character
BQ == "BQ"

UpperLetters == <<"A","B","C","D","E","F","G","H","I","J","K","L","M",
                  "N","O","P","Q","R","S","T","U","V","W","X","Y","Z">>

LowerLetters == <<"a","b","c","d","e","f","g","h","i","j","k","l","m",
                  "n","o","p","q","r","s","t","u","v","w","x","y","z">>

\* str.lower() on one character
LowerChar(c) ==
    IF \E i \in 1..26 : UpperLetters[i] = c
    THEN LowerLetters[CHOOSE i \in 1..26 : UpperLetters[i] = c]
    ELSE c

\* str.lower()
Lower(s) == [i \in 1..Len(s) |-> LowerChar(s[i])]

\* the characters str.strip() removes and the regular expression \s matches
IsSpace(c) == c \in {" ", "\t", "\n", "\r", "\f"}

\* s[from-1:] of Python, 1-based: the suffix of s starting at position from
Drop(s, from) == SubSeq(s, from, Len(s))

\* s.startswith(p)
StartsWith(s, p) == Len(s) >= Len(p) /\ SubSeq(s, 1, Len(p)) = p

\* s.endswith(p)
EndsWith(s, p) == Len(s) >= Len(p) /\ Drop(s, Len(s) - Len(p) + 1) = p

\* p occurs in s at position i
OccursAt(s, p, i) ==
    i >= 1 /\ i + Len(p) - 1 <= Len(s) /\ SubSeq(s, i, i + Len(p) - 1) = p

\* p in s
Contains(s, p) == \E i \in 1..(Len(s) + 1) : OccursAt(s, p, i)

RECURSIVE Concat(_)
\* ''.join(parts)
Concat(parts) ==
    IF parts = <<>> THEN <<>> ELSE Head(parts) \o Concat(Tail(parts))

RECURSIVE Join(_, _)
\* sep.join(parts)
Join(sep, parts) ==
    IF parts = <<>> THEN <<>>
    ELSE IF Len(parts) = 1 THEN parts[1]
    ELSE parts[1] \o sep \o Join(sep, Tail(parts))

\* s.strip()
Strip(s) ==
    LET keep == {i \in 1..Len(s) : ~IsSpace(s[i])}
    IN  IF keep = {} THEN <<>>
        ELSE LET lo == CHOOSE i \in keep : \A j \in keep : i <= j
                 hi == CHOOSE i \in keep : \A j \in keep : j <= i
             IN  SubSeq(s, lo, hi)

\* None and a str, as optional values
None == [some |-> FALSE, text |-> <<>>]

Some(s) == [some |-> TRUE, text |-> s]

\* Python truthiness of an optional str: neither None nor ""
Truthy(o) == o.some /\ o.text # <<>>

\* all sequences over S of length at most n
SeqUpTo(S, n) == UNION {[1..k -> S] : k \in 0..n}

----------------------------------------------------------------------------
(* call_openai_api: the truncation of what goes into the prompt            *)

\* len(content) > 3000
ContentLimit == 3000

\* len(diff) > 2000
DiffLimit == 2000

\* "\n... (truncated)"
TruncationMarker ==
    <<"\n",".",".","."," ","(","t","r","u","n","c","a","t","e","d",")">>

\* the limit that applies to a change of the given type: content of an added
\* file, the diff of any other
LimitFor(change_type) ==
    IF change_type = "added" THEN ContentLimit ELSE DiffLimit

TruncateAtOrAbove(content, limit) ==
    IF Len(content) >= limit
    THEN SubSeq(content, 1, limit) \o TruncationMarker
    ELSE content

\* if len(content) > limit: content = content[:limit] + "\n... (truncated)"
Truncate(content, limit) ==
    IF Len(content) > limit
    THEN SubSeq(content, 1, limit) \o TruncationMarker
    ELSE content

----------------------------------------------------------------------------
(* is_likely_text_file, prepare_changes_for_ai, categorize_changes         *)

\* binary_extensions
binary_extensions ==
    { <<".","j","p","g">>, <<".","j","p","e","g">>, <<".","p","n","g">>,
      <<".","g","i","f">>, <<".","p","d","f">>, <<".","z","i","p">>,
      <<".","t","a","r">>, <<".","g","z">>, <<".","e","x","e">>,
      <<".","d","l","l">>, <<".","s","o">>, <<".","d","y","l","i","b">> }

\* len(content) > 50000
MaxContentLen == 50000

\* Path(filename).name: what follows the last "/"
PathName(filename) ==
    LET slashes == {i \in 1..Len(filename) : filename[i] = "/"}
    IN  IF slashes = {} THEN filename
        ELSE Drop(filename, 1 + CHOOSE i \in slashes : \A j \in slashes : j <= i)

\* Path(filename).suffix: the name from its last "." on, when that "." is
\* neither the first nor the last character of the name
PathSuffix(filename) ==
    LET name == PathName(filename)
        dots == {i \in 1..Len(name) : name[i] = "."}
    IN  IF dots = {} THEN <<>>
        ELSE LET d == CHOOSE i \in dots : \A j \in dots : j <= i
             IN  IF 1 < d /\ d < Len(name) THEN Drop(name, d) ELSE <<>>

\* is_likely_text_file(filename, content)
is_likely_text_file(filename, content) ==
    IF Lower(PathSuffix(filename)) \in binary_extensions THEN FALSE
    ELSE IF \E i \in 1..Len(content) : content[i] = NUL THEN FALSE
    ELSE IF Len(content) > MaxContentLen THEN FALSE
    ELSE TRUE

\* the character c, n times
Repeat(c, n) == SubSeq([i \in 1..n |-> c], 1, n)

\* the texts the lookups of the working copy can return, by name; the state
\* holds the names
TextOf(name) ==
    CASE name = "empty" -> <<>>
      [] name = "text" -> <<"x", "\n">>
      [] name = "nul" -> <<"x", NUL, "x">>
      [] name = "limit" -> Repeat("x", MaxContentLen)
      [] name = "over" -> Repeat("x", MaxContentLen + 1)
      [] name = "diff" -> <<"+", "x", "\n">>

\* get_file_content(filename): the content of the file, "" when it cannot be
\* read or decoded
get_file_content(lookup) == TextOf(lookup.content)

\* get_file_diff(filename): the staged diff of the file, "" when git fails
get_file_diff(lookup) == TextOf(lookup.diff)

\* change_info after the "Determine change type" chain, for one staged file
\* and what the working copy holds for it.  A key the dict lacks is None.
ChangeInfo(status, filename, lookup) ==
    IF StartsWith(status, <<"A">>)
    THEN [filename |-> filename, type |-> "added",
          content |-> Some(get_file_content(lookup)), diff |-> None]
    ELSE IF StartsWith(status, <<"M">>)
    THEN [filename |-> filename, type |-> "modified",
          content |-> None, diff |-> Some(get_file_diff(lookup))]
    ELSE IF StartsWith(status, <<"D">>)
    THEN [filename |-> filename, type |-> "deleted",
          content |-> None, diff |-> None]
    ELSE IF StartsWith(status, <<"R">>)
    THEN [filename |-> filename, type |-> "renamed",
          content |-> None, diff |-> Some(get_file_diff(lookup))]
    ELSE [filename |-> filename, type |-> "modified",
          content |-> None, diff |-> None]

\* whether prepare_changes_for_ai appends change_info to changes_data: a
\* deleted file is skipped (continue), an added one needs content that looks
\* like text, a modified or renamed one needs a diff
Included(change_info) ==
    \/ /\ change_info.type = "added"
       /\ Truthy(change_info.content)
       /\ is_likely_text_file(change_info.filename, change_info.content.text)
    \/ /\ change_info.type \in {"modified", "renamed"}
       /\ Truthy(change_info.diff)

RECURSIVE prepare_changes_for_ai(_, _)
\* prepare_changes_for_ai(staged_files); lookups[i] is what the working copy
\* holds for staged_files[i]
prepare_changes_for_ai(staged_files, lookups) ==
    IF staged_files = <<>> THEN <<>>
    ELSE LET change_info == ChangeInfo(staged_files[1][1], staged_files[1][2],
                                       lookups[1])
             rest == prepare_changes_for_ai(Tail(staged_files), Tail(lookups))
         IN  IF Included(change_info) THEN <<change_info>> \o rest ELSE rest

\* the keys of categories, in the order of the dict
Kinds == <<"added", "modified", "deleted", "renamed", "copied">>

StatusKindWholeCode(status) ==
    CASE status = <<"A">> -> "added"
      [] status = <<"M">> -> "modified"
      [] status = <<"D">> -> "deleted"
      [] status = <<"R">> -> "renamed"
      [] status = <<"C">> -> "copied"
      [] OTHER -> "modified"

\* status_map[status[0]], and 'modified' for a letter status_map lacks
StatusKind(status) ==
    CASE status[1] = "A" -> "added"
      [] status[1] = "M" -> "modified"
      [] status[1] = "D" -> "deleted"
      [] status[1] = "R" -> "renamed"
      [] status[1] = "C" -> "copied"
      [] OTHER -> "modified"

RECURSIVE FilesOfKind(_, _)
\* categories[kind] after the loop: the filenames of that kind, in the order
\* of staged_files
FilesOfKind(staged_files, kind) ==
    IF staged_files = <<>> THEN <<>>
    ELSE LET rest == FilesOfKind(Tail(staged_files), kind)
         IN  IF StatusKind(staged_files[1][1]) = kind
             THEN <<staged_files[1][2]>> \o rest
             ELSE rest

\* categorize_changes(staged_files): a dict holding the non-empty categories
categorize_changes(staged_files) ==
    LET nonempty == {k \in {Kinds[i] : i \in 1..Len(Kinds)} :
                        FilesOfKind(staged_files, k) # <<>>}
    IN  [k \in nonempty |-> FilesOfKind(staged_files, k)]

----------------------------------------------------------------------------
(* generate_summary                                                        *)

RECURSIVE Split(_, _)
\* s.split(c) for a one-character separator c
Split(s, c) ==
    LET at == {i \in 1..Len(s) : s[i] = c}
    IN  IF at = {} THEN <<s>>
        ELSE LET i == CHOOSE i \in at : \A j \in at : i <= j
             IN  <<SubSeq(s, 1, i - 1)>> \o Split(Drop(s, i + 1), c)

SummaryLabel == <<"*","*","S","u","m","m","a","r","y",":","*","*">>

StatsLabel ==
    <<"*","*","C","h","a","n","g","e","s"," ","s","u","m","m","a","r","y",
      ":","*","*">>

HeaderPrefix == <<"#","#"," ","C","h","a","n","g","e","s"," ","-"," ">>

\* the label of a category line: "**Added files:** ", ...
KindLabel(kind) ==
    CASE kind = "added" ->
           <<"*","*","A","d","d","e","d"," ","f","i","l","e","s",":","*","*"," ">>
      [] kind = "modified" ->
           <<"*","*","M","o","d","i","f","i","e","d"," ","f","i","l","e","s",
             ":","*","*"," ">>
      [] kind = "deleted" ->
           <<"*","*","D","e","l","e","t","e","d"," ","f","i","l","e","s",":",
             "*","*"," ">>
      [] kind = "renamed" ->
           <<"*","*","R","e","n","a","m","e","d"," ","f","i","l","e","s",":",
             "*","*"," ">>
      [] kind = "copied" ->
           <<"*","*","C","o","p","i","e","d"," ","f","i","l","e","s",":","*",
             "*"," ">>

\* categories.get(kind): truthy only for a key that is present
CategoryLine(categories, kind) ==
    IF kind \in DOMAIN categories /\ categories[kind] # <<>>
    THEN << KindLabel(kind) \o Join(<<",", " ">>, categories[kind]) >>
    ELSE <<>>

AlphabeticalCategoryLines(categories) ==
    CategoryLine(categories, "added") \o CategoryLine(categories, "copied")
    \o CategoryLine(categories, "deleted") \o CategoryLine(categories, "modified")
    \o CategoryLine(categories, "renamed")

\* the five "if categories.get(...)" statements, in the order of the code
CategoryLines(categories) ==
    CategoryLine(categories, "added") \o CategoryLine(categories, "modified")
    \o CategoryLine(categories, "deleted") \o CategoryLine(categories, "renamed")
    \o CategoryLine(categories, "copied")

\* the lines added for the AI summary: "if ai_summary:"
SummaryLines(ai_summary) ==
    IF Truthy(ai_summary)
    THEN << <<>>, SummaryLabel, ai_summary.text, <<>> >>
    ELSE <<>>

\* the lines added for the statistics: "if stats:"
StatsLines(stats) ==
    IF stats # <<>>
    THEN LET stat_lines == Split(stats, "\n")
         IN  << StatsLabel,
                <<BQ,BQ,BQ,"\n">> \o stat_lines[Len(stat_lines)]
                    \o <<"\n",BQ,BQ,BQ>> >>
    ELSE <<>>

\* summary_lines of generate_summary; timestamp is datetime.now() formatted
\* as %Y-%m-%d
summary_lines(categories, stats, ai_summary, timestamp) ==
    << HeaderPrefix \o timestamp >>
    \o SummaryLines(ai_summary)
    \o CategoryLines(categories)
    \o StatsLines(stats)
    \o << <<>> >>

\* generate_summary(categories, stats, ai_summary)
generate_summary(categories, stats, ai_summary, timestamp) ==
    Join(<<"\n">>, summary_lines(categories, stats, ai_summary, timestamp))

----------------------------------------------------------------------------
(* update_readme: the regular expression, the replacement template         *)

\* the characters of code 32 to 126
Printable ==
    << " ", "!", "\"", "#", "$", "%", "&", "'", "(", ")", "*", "+",
       ",", "-", ".", "/", "0", "1", "2", "3", "4", "5", "6", "7",
       "8", "9", ":", ";", "<", "=", ">", "?", "@", "A", "B", "C",
       "D", "E", "F", "G", "H", "I", "J", "K", "L", "M", "N", "O",
       "P", "Q", "R", "S", "T", "U", "V", "W", "X", "Y", "Z", "[",
       "\\", "]", "^", "_", BQ, "a", "b", "c", "d", "e", "f", "g",
       "h", "i", "j", "k", "l", "m", "n", "o", "p", "q", "r", "s",
       "t", "u", "v", "w", "x", "y", "z", "{", "|", "}", "~" >>

\* chr(n); a character without a literal is named by its code
Chr(n) ==
    IF n \in 32..126 THEN Printable[n - 31]
    ELSE CASE n = 0 -> NUL
           [] n = 9 -> "\t"
           [] n = 10 -> "\n"
           [] n = 12 -> "\f"
           [] n = 13 -> "\r"
           [] OTHER -> "chr" \o ToString(n)

Digits == {"0", "1", "2", "3", "4", "5", "6", "7", "8", "9"}

OctDigits == {"0", "1", "2", "3", "4", "5", "6", "7"}

DigitVal(c) == (CHOOSE i \in 1..10 : Printable[16 + i] = c) - 1

AsciiLetters ==
    {UpperLetters[i] : i \in 1..26} \cup {LowerLetters[i] : i \in 1..26}

\* the heading of the pattern, lower-cased: re.IGNORECASE compares the
\* lower-cased characters
HeadingLower == <<"#","#"," ","c","h","a","n","g","e","l","o","g">>

\* "## Changelog"
Heading == <<"#","#"," ","C","h","a","n","g","e","l","o","g">>

\* the end of the match of (## Changelog\s*\n), re.IGNORECASE, that starts at
\* position i of content, or 0 when none does: \s* is greedy, so the match
\* runs to the last newline of the whitespace that follows the heading
MatchEnd(content, i) ==
    IF \/ i + 11 > Len(content)
       \/ content[i] # "#"
       \/ Lower(SubSeq(content, i, i + 11)) # HeadingLower
    THEN 0
    ELSE LET j == i + 12
             stop == {k \in j..(Len(content) + 1) :
                         k = Len(content) + 1 \/ ~IsSpace(content[k])}
             wsEnd == (CHOOSE k \in stop : \A m \in stop : k <= m) - 1
             nl == {k \in j..wsEnd : content[k] = "\n"}
         IN  IF nl = {} THEN 0
             ELSE CHOOSE k \in nl : \A m \in nl : m <= k

\* re.search(changelog_pattern, content, re.IGNORECASE)
HasHeading(content) == \E i \in 1..Len(content) : MatchEnd(content, i) > 0

RECURSIVE Matches(_, _)
\* the non-overlapping matches re.sub replaces, leftmost first, searching
\* from position from on: each a pair <<start, end>>
Matches(content, from) ==
    LET starts == {i \in from..Len(content) : MatchEnd(content, i) > 0}
    IN  IF starts = {} THEN <<>>
        ELSE LET i == CHOOSE i \in starts : \A j \in starts : i <= j
                 e == MatchEnd(content, i)
             IN  << <<i, e>> >> \o Matches(content, e + 1)

\* a parsed template or the expansion of one: ok is FALSE when re.error is
\* raised
TemplateError == [ok |-> FALSE, text |-> <<>>]

Emit(chars, rest) ==
    IF rest.ok THEN [ok |-> TRUE, text |-> chars \o rest.text] ELSE rest

RECURSIVE Expand(_, _, _)
\* the expansion of the replacement template t from position i on, for a
\* match whose group 1 is g1 (sre_parse.parse_template and expand_template,
\* for a pattern with one group): the characters up to the next backslash
\* stand for themselves, a backslash starts an escape
Expand(t, i, g1) ==
    IF i > Len(t) THEN [ok |-> TRUE, text |-> <<>>]
    ELSE IF t[i] # "\\"
    THEN LET escapes == {k \in i..Len(t) : t[k] = "\\"}
             next == IF escapes = {} THEN Len(t) + 1
                     ELSE CHOOSE k \in escapes : \A m \in escapes : k <= m
         IN  Emit(SubSeq(t, i, next - 1), Expand(t, next, g1))
    ELSE IF i = Len(t) THEN TemplateError
    ELSE LET c == t[i + 1]
             at(k) == IF i + k <= Len(t) THEN t[i + k] ELSE "end"
         IN  IF c = "g"
             THEN LET close == {k \in (i + 3)..Len(t) : t[k] = ">"}
                  IN  IF at(2) # "<" \/ close = {} THEN TemplateError
                      ELSE LET e == CHOOSE k \in close : \A m \in close : k <= m
                               name == SubSeq(t, i + 3, e - 1)
                           IN  IF name # <<>>
                                  /\ (\A k \in 1..Len(name) : name[k] \in {"0", "1"})
                                  /\ (\A m \in 1..(Len(name) - 1) : name[m] = "0")
                               THEN Emit(g1, Expand(t, e + 1, g1))
                               ELSE TemplateError
             ELSE IF c = "0"
             THEN IF at(2) \in OctDigits
                  THEN IF at(3) \in OctDigits
                       THEN Emit(<<Chr((8 * DigitVal(at(2)) + DigitVal(at(3))) % 256)>>,
                                 Expand(t, i + 4, g1))
                       ELSE Emit(<<Chr(DigitVal(at(2)))>>, Expand(t, i + 3, g1))
                  ELSE Emit(<<Chr(0)>>, Expand(t, i + 2, g1))
             ELSE IF c \in Digits
             THEN IF at(2) \in Digits
                  THEN IF c \in OctDigits /\ at(2) \in OctDigits
                          /\ at(3) \in OctDigits
                       THEN LET n == 64 * DigitVal(c) + 8 * DigitVal(at(2))
                                         + DigitVal(at(3))
                            IN  IF n > 255 THEN TemplateError
                                ELSE Emit(<<Chr(n)>>, Expand(t, i + 4, g1))
                       ELSE TemplateError
                  ELSE IF c = "1" THEN Emit(g1, Expand(t, i + 2, g1))
                  ELSE TemplateError
             ELSE IF c \in {"a", "b", "f", "n", "r", "t", "v", "\\"}
             THEN Emit(<< CASE c = "a" -> Chr(7)
                            [] c = "b" -> Chr(8)
                            [] c = "f" -> "\f"
                            [] c = "n" -> "\n"
                            [] c = "r" -> "\r"
                            [] c = "t" -> "\t"
                            [] c = "v" -> Chr(11)
                            [] c = "\\" -> "\\" >>,
                       Expand(t, i + 2, g1))
             ELSE IF c \in AsciiLetters THEN TemplateError
             ELSE Emit(<<"\\", c>>, Expand(t, i + 2, g1))

RECURSIVE SubFrom(_, _, _, _)
\* re.sub from position pos on: the text between the matches is kept, each
\* match in ms is replaced by the expansion of template
SubFrom(content, pos, ms, template) ==
    IF ms = <<>> THEN [ok |-> TRUE, text |-> Drop(content, pos)]
    ELSE LET m == ms[1]
             repl == Expand(template, 1, SubSeq(content, m[1], m[2]))
         IN  IF ~repl.ok THEN TemplateError
             ELSE Emit(SubSeq(content, pos, m[1] - 1) \o repl.text,
                       SubFrom(content, m[2] + 1, Tail(ms), template))

\* re.sub(changelog_pattern, template, content, flags=re.IGNORECASE)
ReSub(content, template) ==
    SubFrom(content, 1, Matches(content, 1), template)

\* a file that does not exist, and one that holds text
NoFile == [exists |-> FALSE, content |-> <<>>]

File(text) == [exists |-> TRUE, content |-> text]

\* "# Project README\n\n## Changelog\n\n"
NewReadme ==
    <<"#"," ","P","r","o","j","e","c","t"," ","R","E","A","D","M","E","\n",
      "\n","#","#"," ","C","h","a","n","g","e","l","o","g","\n","\n">>

\* "\n## Changelog\n\n"
NewSection ==
    <<"\n","#","#"," ","C","h","a","n","g","e","l","o","g","\n","\n">>

AppendedNoNewlineCheck(content, summary) ==
    content \o NewSection \o summary \o <<"\n">>

\* the else branch of update_readme: the section added at the end
Appended(content, summary) ==
    (IF EndsWith(content, <<"\n">>) THEN content ELSE content \o <<"\n">>)
    \o NewSection \o summary \o <<"\n">>

\* update_readme(summary) on the file README.md: the file it leaves, and
\* whether it raised (re.error from the template) before writing
update_readme(file, summary) ==
    LET content == IF ~file.exists THEN NewReadme ELSE file.content
    IN  IF HasHeading(content)
        THEN LET r == ReSub(content, <<"\\", "1">> \o summary \o <<"\n">>)
             IN  IF r.ok THEN [raised |-> FALSE, file |-> File(r.text)]
                 ELSE [raised |-> TRUE, file |-> file]
        ELSE [raised |-> FALSE, file |-> File(Appended(content, summary))]

----------------------------------------------------------------------------
(* State                                                                   *)

VARIABLES
    pc,              \* run: the statement run() is at ("off": no run)
    openai_api_key,  \* self.openai_api_key
    staged_files,    \* staged_files: a sequence of <<status, filename>>
    stats,           \* stats
    categories,      \* categories
    lookups,         \* what the working copy holds for each staged file
    changes_data,    \* changes_data: filename and type of each entry
    api_reply,       \* what the request to the API met with ("none": no call)
    ai_summary,      \* ai_summary
    summary,         \* summary: the fragment last rendered or passed on
    answer,          \* what the operator typed at the prompt
    response,        \* response: the answer, stripped and lower-cased
    exit_code,       \* the exit status of the process (-1: still running)
    outcome,         \* how the run ended
    requests,        \* the number of requests.post calls made
    console,         \* the messages printed, in order
    readme,          \* the file README.md, as text-mode I/O presents it
    readme0,         \* README.md when the run (or the first call) started
    applied,         \* the fragments update_readme has written, in order
    raised,          \* update_readme raised
    change_type,     \* truncation: change['type']
    text,            \* truncation: the content or diff of the change
    cut,             \* truncation: the text after the length check
    truncations      \* truncation: how often the length check was applied

runVars ==
    <<pc, openai_api_key, stats, api_reply, ai_summary, answer, response,
      exit_code, outcome, requests, console>>

changeVars == <<staged_files, lookups, categories, changes_data, summary>>

readmeVars == <<readme, readme0, applied, raised>>

truncVars == <<change_type, text, cut, truncations>>

vars == <<runVars, changeVars, readmeVars, truncVars>>

\* no request was made
NoReply == [kind |-> "none", status |-> 0, body |-> "none", text |-> <<>>]

\* the values of the variables an operation under study does not use
RunIdle ==
    /\ pc = "off"
    /\ openai_api_key = None
    /\ stats = <<>>
    /\ api_reply = NoReply
    /\ ai_summary = None
    /\ answer = <<>>
    /\ response = <<>>
    /\ exit_code = -1
    /\ outcome = "none"
    /\ requests = 0
    /\ console = <<>>

ChangeIdle ==
    /\ staged_files = <<>>
    /\ lookups = <<>>
    /\ categories = <<>>
    /\ changes_data = <<>>
    /\ summary = <<>>

ReadmeIdle ==
    /\ readme = NoFile
    /\ readme0 = NoFile
    /\ applied = <<>>
    /\ raised = FALSE

TruncIdle ==
    /\ change_type = "none"
    /\ text = <<>>
    /\ cut = <<>>
    /\ truncations = 0

----------------------------------------------------------------------------
(* update_readme on its own: one call, any document and any fragment       *)

\* the longest document, in pieces
MaxDocPieces == 3

\* the longest fragment, in pieces
MaxFragPieces == 2

\* what the documents are made of: the heading in two cases, a newline, a
\* space and a letter
DocPieces ==
    { Heading, <<"#","#"," ","C","H","A","N","G","E","L","O","G">>,
      <<"\n">>, <<" ">>, <<"x">> }

\* what the fragments are made of: a backslash, a letter (one that forms an
\* escape after a backslash), a newline and a heading line
FragPieces ==
    { <<"\\">>, <<"n">>, <<"\n">>, Heading \o <<"\n">> }

Docs == {Concat(p) : p \in SeqUpTo(DocPieces, MaxDocPieces)}

Fragments == {Concat(p) : p \in SeqUpTo(FragPieces, MaxFragPieces)}

InitReadme ==
    /\ readme \in {NoFile} \cup {File(d) : d \in Docs}
    /\ readme0 = readme
    /\ applied = <<>>
    /\ raised = FALSE
    /\ RunIdle /\ ChangeIdle /\ TruncIdle

\* one call update_readme(fragment), while fewer than limit calls succeeded
\* and none raised
UpdateReadme(fragments, limit) ==
    /\ Len(applied) < limit
    /\ ~raised
    /\ \E fragment \in fragments :
          LET r == update_readme(readme, fragment)
          IN  /\ readme' = r.file
              /\ raised' = r.raised
              /\ applied' = IF r.raised THEN applied
                            ELSE Append(applied, fragment)
              /\ summary' = fragment
    /\ UNCHANGED <<readme0, staged_files, lookups, categories, changes_data>>
    /\ UNCHANGED <<runVars, truncVars>>

NextReadme == UpdateReadme(Fragments, 1)

SpecReadme == InitReadme /\ [][NextReadme]_vars

\* the call under study has been made
Called == applied # <<>> \/ raised

\* the position of the newline that ends the first heading line of content
FirstHeadingLineEnd(content) ==
    LET starts == {i \in 1..Len(content) : MatchEnd(content, i) > 0}
        i == CHOOSE i \in starts : \A j \in starts : i <= j
        nl == {k \in (i + 12)..Len(content) : content[k] = "\n"}
    IN  CHOOSE k \in nl : \A m \in nl : k <= m

\* C1: after update_readme on a document that has a heading line, the
\* document is the old one with the fragment (and the newline that ends it)
\* inserted once, right after the first heading line, whatever the document
\* and the fragment are
C1_InsertedOnceAfterHeadingLine ==
    (Called /\ readme0.exists /\ HasHeading(readme0.content)) =>
        /\ ~raised
        /\ LET k == FirstHeadingLineEnd(readme0.content)
               pre == SubSeq(readme0.content, 1, k)
               post == Drop(readme0.content, k + 1)
           IN  readme.content \in { pre \o summary \o post,
                                    pre \o summary \o <<"\n">> \o post }

\* C9, as claimed: on a document without a heading the result is the prior
\* content, exactly one newline, the one new heading, and the fragment
C9_ExactlyOneNewlineBeforeHeading ==
    (Called /\ readme0.exists /\ ~HasHeading(readme0.content)) =>
        /\ ~raised
        /\ StartsWith(readme.content, readme0.content \o <<"\n">> \o Heading)
        /\ EndsWith(readme.content, summary \o <<"\n">>)
        /\ Len(Matches(readme.content, 1)) = 1

\* C9, amended: on a document without a heading the result is the prior
\* content, a newline if the prior content does not end with one, an empty
\* line, the heading line, an empty line, the fragment and a newline; the
\* prior content is a prefix of it; and the heading matches once for the
\* new heading line, once for each heading line of the fragment, and once
\* more if the unterminated last line of the prior content is heading text
C9_SectionAppended ==
    (Called /\ readme0.exists /\ ~HasHeading(readme0.content)) =>
        LET prior == readme0.content
            sep == IF prior # <<>> /\ prior[Len(prior)] = "\n"
                   THEN <<"\n">> ELSE <<"\n", "\n">>
        IN  /\ ~raised
            /\ readme.content =
                  prior \o sep \o Heading \o <<"\n", "\n">> \o summary \o <<"\n">>
            /\ StartsWith(readme.content, prior)
            /\ Len(Matches(readme.content, 1)) =
                  1 + Len(Matches(prior \o <<"\n">>, 1))
                    + Len(Matches(summary \o <<"\n">>, 1))

\* C9's case: a document without a trailing newline and without a heading
\* got its section
C9_Witness ==
    /\ Called /\ ~raised
    /\ readme0.exists /\ ~HasHeading(readme0.content)
    /\ readme0.content = <<"x">>
    /\ summary = <<"n", "\\">>
    /\ Len(Matches(readme.content, 1)) = 1

----------------------------------------------------------------------------
(* categorize_changes, prepare_changes_for_ai and generate_summary on      *)
(* their own                                                               *)

\* the longest list of staged files
MaxStaged == 2

\* status codes of git diff --name-status: the five letters of status_map,
\* two of them with a similarity score, and a type change
Statuses ==
    { <<"A">>, <<"M">>, <<"D">>, <<"R","1","0","0">>, <<"C","7","5">>, <<"T">> }

\* a.py and d/b.PNG
Filenames == { <<"a",".","p","y">>, <<"d","/","b",".","P","N","G">> }

StagedLists == SeqUpTo(Statuses \X Filenames, MaxStaged)

\* the scenario of the specification: A newfile.py, M existing.py, D old.txt
ScenarioStaged ==
    << << <<"A">>, <<"n","e","w","f","i","l","e",".","p","y">> >>,
       << <<"M">>, <<"e","x","i","s","t","i","n","g",".","p","y">> >>,
       << <<"D">>, <<"o","l","d",".","t","x","t">> >> >>

\* what the working copy can hold for one staged file
Lookups ==
    [content : {"empty", "text", "nul", "limit", "over"},
     diff : {"empty", "diff"}]

\* the outputs of git diff --cached --stat, stripped: none, and a report of
\* two lines
StatsOutputs ==
    { <<>>,
      <<"a",".","p","y"," ","|"," ","2"," ","+","+", "\n",
        " ","1"," ","f","i","l","e"," ","c","h","a","n","g","e","d">> }

\* the summaries call_openai_api can return: none, an empty one, plain text,
\* text with a backslash escape, text with a backslash pair, a heading line
AiSummaries ==
    { None, Some(<<>>), Some(<<"o","k">>), Some(<<"a","\\","n","b">>),
      Some(<<"\\","\\">>), Some(Heading) }

\* the dates datetime.now() can give, as %Y-%m-%d
Dates == { <<"2","0","2","4","-","0","1","-","0","5">> }

InitChanges ==
    /\ pc = "staged"
    /\ staged_files \in (StagedLists \cup {ScenarioStaged}) \ {<<>>}
    /\ lookups = <<>>
    /\ categories = <<>>
    /\ changes_data = <<>>
    /\ summary = <<>>
    /\ openai_api_key = None
    /\ stats = <<>>
    /\ api_reply = NoReply
    /\ ai_summary = None
    /\ answer = <<>>
    /\ response = <<>>
    /\ exit_code = -1
    /\ outcome = "none"
    /\ requests = 0
    /\ console = <<>>
    /\ ReadmeIdle /\ TruncIdle

\* categories = self.categorize_changes(staged_files)
CategorizeChanges ==
    /\ pc = "staged"
    /\ categories' = categorize_changes(staged_files)
    /\ pc' = "categorized"
    /\ UNCHANGED <<staged_files, lookups, changes_data, summary>>
    /\ UNCHANGED <<openai_api_key, stats, api_reply, ai_summary, answer,
                   response, exit_code, outcome, requests, console>>
    /\ UNCHANGED <<readmeVars, truncVars>>

\* generate_summary(categories, stats, ai_summary) for any statistics, AI
\* summary and date
RenderSummary ==
    /\ pc = "categorized"
    /\ \E st \in StatsOutputs, ai \in AiSummaries, timestamp \in Dates :
          /\ stats' = st
          /\ ai_summary' = ai
          /\ summary' = generate_summary(categories, st, ai, timestamp)
    /\ pc' = "rendered"
    /\ UNCHANGED <<staged_files, lookups, categories, changes_data>>
    /\ UNCHANGED <<openai_api_key, api_reply, answer, response, exit_code,
                   outcome, requests, console>>
    /\ UNCHANGED <<readmeVars, truncVars>>

NextChanges == CategorizeChanges \/ RenderSummary

SpecChanges == InitChanges /\ [][NextChanges]_vars

\* changes_data = self.prepare_changes_for_ai(staged_files), with what the
\* working copy holds for each file
PrepareChanges ==
    /\ pc = "categorized"
    /\ \E l \in [1..Len(staged_files) -> Lookups] :
          LET data == prepare_changes_for_ai(staged_files, l)
          IN  /\ lookups' = l
              /\ changes_data' =
                    [i \in 1..Len(data) |->
                        [filename |-> data[i].filename, type |-> data[i].type]]
    /\ pc' = "prepared"
    /\ UNCHANGED <<staged_files, categories, summary>>
    /\ UNCHANGED <<openai_api_key, stats, api_reply, ai_summary, answer,
                   response, exit_code, outcome, requests, console>>
    /\ UNCHANGED <<readmeVars, truncVars>>

NextPrepare == CategorizeChanges \/ PrepareChanges

SpecPrepare == InitChanges /\ [][NextPrepare]_vars

\* the category the claims give a status code: by its first letter alone
ClaimedKind(status) ==
    LET letter == Head(status)
    IN  IF letter = "A" THEN "added"
        ELSE IF letter = "D" THEN "deleted"
        ELSE IF letter = "R" THEN "renamed"
        ELSE IF letter = "C" THEN "copied"
        ELSE "modified"

\* categories.get(kind, [])
Category(kind) == IF kind \in DOMAIN categories THEN categories[kind] ELSE <<>>

KindSet == {"added", "modified", "deleted", "renamed", "copied"}

RECURSIVE TotalLen(_)
TotalLen(kinds) ==
    IF kinds = {} THEN 0
    ELSE LET k == CHOOSE k \in kinds : TRUE
         IN  Len(Category(k)) + TotalLen(kinds \ {k})

\* C6: categorize_changes puts every staged file in the one category its
\* first status letter names (modified for any other letter), at the place
\* its order in the staged list gives it, and the categories hold nothing
\* else
C6_OneCategoryByFirstLetter ==
    pc \in {"categorized", "rendered", "prepared"} =>
        /\ DOMAIN categories \subseteq KindSet
        /\ TotalLen(KindSet) = Len(staged_files)
        /\ \A i \in 1..Len(staged_files) :
              LET kind == ClaimedKind(staged_files[i][1])
                  place == Cardinality({j \in 1..i :
                              ClaimedKind(staged_files[j][1]) = kind})
              IN  /\ place <= Len(Category(kind))
                  /\ Category(kind)[place] = staged_files[i][2]

\* C6's case: a rename with a similarity score and a type change
\* have been categorized
C6_Witness ==
    /\ pc = "categorized"
    /\ \E i, j \in 1..Len(staged_files) :
          /\ staged_files[i][1] = <<"R","1","0","0">>
          /\ staged_files[j][1] = <<"T">>
          /\ "renamed" \in DOMAIN categories
          /\ "modified" \in DOMAIN categories

\* the lines of the rendered fragment that are category lines
LabelledLines ==
    SelectSeq(Split(summary, "\n"),
              LAMBDA line : \E k \in KindSet : StartsWith(line, KindLabel(k)))

\* the category line the claims expect for a kind: none for an empty one
ClaimedLine(kind) ==
    LET idx == {i \in 1..Len(staged_files) :
                   ClaimedKind(staged_files[i][1]) = kind}
        files == [n \in 1..Cardinality(idx) |->
                    staged_files[CHOOSE i \in idx :
                        Cardinality({j \in idx : j <= i}) = n][2]]
    IN  IF idx = {} THEN <<>>
        ELSE << KindLabel(kind) \o Join(<<",", " ">>, files) >>

\* C7: the rendered fragment has one line for each non-empty category, in
\* the order added, modified, deleted, renamed, copied, and a **Summary:**
\* line exactly when there is an AI summary
C7_FixedCategoryOrder ==
    pc = "rendered" =>
        /\ LabelledLines =
              ClaimedLine("added") \o ClaimedLine("modified")
              \o ClaimedLine("deleted") \o ClaimedLine("renamed")
              \o ClaimedLine("copied")
        /\ (\E i \in 1..Len(Split(summary, "\n")) :
                Split(summary, "\n")[i] = SummaryLabel) <=> Truthy(ai_summary)

\* C7's case: the scenario of the specification, rendered without a
\* credential: Added, Modified and Deleted lines in that order, no summary
C7_Witness ==
    /\ pc = "rendered"
    /\ staged_files = ScenarioStaged
    /\ ai_summary = None
    /\ stats = <<>>
    /\ Split(summary, "\n") =
          << HeaderPrefix \o <<"2","0","2","4","-","0","1","-","0","5">>,
             KindLabel("added") \o <<"n","e","w","f","i","l","e",".","p","y">>,
             KindLabel("modified")
                 \o <<"e","x","i","s","t","i","n","g",".","p","y">>,
             KindLabel("deleted") \o <<"o","l","d",".","t","x","t">>,
             <<>> >>

\* C5, as claimed: a staged file that is added, modified or renamed and has
\* a denylisted extension, a null byte in its content or a content longer
\* than 50,000 is not in the summarization input, and is in the category
\* listing
C5_BinaryNeverSummarized ==
    pc = "prepared" =>
        \A i \in 1..Len(staged_files) :
            LET filename == staged_files[i][2]
                content == TextOf(lookups[i].content)
            IN  (/\ ClaimedKind(staged_files[i][1])
                        \in {"added", "modified", "renamed"}
                 /\ \/ Lower(PathSuffix(filename)) \in binary_extensions
                    \/ \E n \in 1..Len(content) : content[n] = NUL
                    \/ Len(content) > MaxContentLen)
                => /\ \A n \in 1..Len(changes_data) :
                          changes_data[n].filename # filename
                   /\ \E k \in DOMAIN categories :
                          \E n \in 1..Len(categories[k]) :
                              categories[k][n] = filename

----------------------------------------------------------------------------
(* update_readme, call after call, with the fragments generate_summary     *)
(* renders                                                                 *)

\* the most calls of update_readme on one document
MaxUpdates == 2

\* the fragments: one added file, with or without statistics, and each of
\* the AI summaries
Entries ==
    { generate_summary(categorize_changes(<< << <<"A">>, f >> >>), st, ai, d) :
        f \in {<<"a",".","p","y">>}, st \in StatsOutputs, ai \in AiSummaries,
        d \in Dates }

InitReadmeSeq ==
    /\ readme \in {NoFile}
                  \cup {File(d) : d \in {x \in Docs : Len(Matches(x, 1)) = 1}}
    /\ readme0 = readme
    /\ applied = <<>>
    /\ raised = FALSE
    /\ RunIdle /\ ChangeIdle /\ TruncIdle

NextReadmeSeq == UpdateReadme(Entries, MaxUpdates)

SpecReadmeSeq == InitReadmeSeq /\ [][NextReadmeSeq]_vars

\* C8: after two or more successful calls the document is the first one
\* with the fragments, newest first and each ended by its newline, put in
\* beneath the heading, and nothing else changed
C8_NewestFirstBeneathHeading ==
    Len(applied) >= 2 =>
        LET c0 == IF readme0.exists THEN readme0.content ELSE NewReadme
            starts == {i \in 1..Len(c0) : MatchEnd(c0, i) > 0}
            first == CHOOSE i \in starts : \A j \in starts : i <= j
            body == Concat([n \in 1..Len(applied) |->
                               applied[Len(applied) - n + 1] \o <<"\n">>])
        IN  \E k \in FirstHeadingLineEnd(c0)..MatchEnd(c0, first) :
                readme.content = SubSeq(c0, 1, k) \o body \o Drop(c0, k + 1)

----------------------------------------------------------------------------
(* GitChangesSummarizer.run                                                *)

\* the longest list of staged files in a run
MaxRunStaged == 1

\* README.md before a run: missing, without a changelog, with one
RunReadmes ==
    { NoFile, File(<<"x", "\n">>), File(Heading \o <<"\n", "x", "\n">>) }

\* the staged entries of a run: a.py added, modified or deleted, and
\* d/b.PNG renamed
RunStaged ==
    { << <<"A">>, <<"a",".","p","y">> >>, << <<"M">>, <<"a",".","p","y">> >>,
      << <<"D">>, <<"a",".","p","y">> >>,
      << <<"R","1","0","0">>, <<"d","/","b",".","P","N","G">> >> }

\* what git diff --cached --name-status gives: a failure of git, or a list
GitOutputs ==
    {[ok |-> FALSE, files |-> <<>>]}
    \cup {[ok |-> TRUE, files |-> l] : l \in SeqUpTo(RunStaged, MaxRunStaged)}

\* what the working copy holds for a staged file, in a run
RunLookups == [content : {"empty", "text"}, diff : {"empty", "diff"}]

\* the message texts a completion can carry: padded with whitespace,
\* whitespace alone, and one with a backslash before a letter
ApiTexts ==
    { <<" ","o","k","\n">>, <<" ","\n">>, <<"a","\\","d">> }

\* what requests.post can meet with: an exception (timeout, no connection),
\* a status other than 200, a 200 whose body is not JSON, has no choices or
\* has no message text, and a 200 with a completion
ApiReplies ==
    {[kind |-> k, status |-> 0, body |-> "none", text |-> <<>>] :
        k \in {"timeout", "connection_error"}}
    \cup {[kind |-> "response", status |-> c, body |-> "error", text |-> <<>>] :
             c \in {500}}
    \cup {[kind |-> "response", status |-> 200, body |-> b, text |-> <<>>] :
             b \in {"not_json", "no_choices", "null_content"}}
    \cup {[kind |-> "response", status |-> 200, body |-> "completion",
           text |-> t] : t \in ApiTexts}

\* what the operator can type at the prompt
Answers ==
    { <<"y">>, <<" ","Y","e","s"," ">>, <<>>, <<"n">>, <<"y","e","a","h">> }

call_openai_api_uncaught(key, reply) ==
    IF ~Truthy(key)
    THEN [summary |-> None, sent |-> 0, printed |-> <<>>, raised |-> FALSE]
    ELSE IF reply.kind # "response"
    THEN [summary |-> None, sent |-> 1, printed |-> <<"generating">>,
          raised |-> TRUE]
    ELSE IF reply.status = 200
    THEN IF reply.body = "completion"
         THEN [summary |-> Some(Strip(reply.text)), sent |-> 1,
               printed |-> <<"generating">>, raised |-> FALSE]
         ELSE [summary |-> None, sent |-> 1, printed |-> <<"generating">>,
               raised |-> TRUE]
    ELSE [summary |-> None, sent |-> 1,
          printed |-> <<"generating", "api_error_status">>, raised |-> FALSE]

\* call_openai_api(changes_data) when the request meets with reply: the
\* summary returned, the requests sent, the messages printed, and whether an
\* exception left the function (the try block catches every Exception)
call_openai_api(key, reply) ==
    IF ~Truthy(key)
    THEN [summary |-> None, sent |-> 0, printed |-> <<>>, raised |-> FALSE]
    ELSE IF reply.kind # "response"
    THEN [summary |-> None, sent |-> 1,
          printed |-> <<"generating", "error_calling_api">>, raised |-> FALSE]
    ELSE IF reply.status = 200
    THEN IF reply.body = "completion"
         THEN [summary |-> Some(Strip(reply.text)), sent |-> 1,
               printed |-> <<"generating">>, raised |-> FALSE]
         ELSE [summary |-> None, sent |-> 1,
               printed |-> <<"generating", "error_calling_api">>,
               raised |-> FALSE]
    ELSE [summary |-> None, sent |-> 1,
          printed |-> <<"generating", "api_error_status">>, raised |-> FALSE]

\* the exit status of the process for each way run() ends: sys.exit(1),
\* sys.exit(1), sys.exit(0), a return from main(), an uncaught exception
ExitCode(how) ==
    CASE how = "not_a_repository" -> 1
      [] how = "no_staged_changes" -> 1
      [] how = "declined" -> 0
      [] how = "success" -> 0
      [] how = "crashed" -> 1

IsAffirmativePrefix(r) == StartsWith(r, <<"y">>)

\* response in ['y', 'yes']
IsAffirmative(r) == r \in { <<"y">>, <<"y","e","s">> }

\* the constructor: the key is looked up, and its absence is reported
Init ==
    /\ pc = "start"
    /\ openai_api_key \in {None, Some(<<"k">>)}
    /\ console = IF Truthy(openai_api_key) THEN <<>> ELSE <<"warn_no_api_key">>
    /\ readme \in RunReadmes
    /\ readme0 = readme
    /\ applied = <<>>
    /\ raised = FALSE
    /\ stats = <<>>
    /\ api_reply = NoReply
    /\ ai_summary = None
    /\ answer = <<>>
    /\ response = <<>>
    /\ exit_code = -1
    /\ outcome = "none"
    /\ requests = 0
    /\ ChangeIdle /\ TruncIdle

\* the process ends
Exit(how, printed) ==
    /\ pc' = "exit"
    /\ outcome' = how
    /\ exit_code' = ExitCode(how)
    /\ console' = console \o printed

\* if not self.is_git_repository(): ... sys.exit(1)
IsGitRepository ==
    /\ pc = "start"
    /\ \E git_dir_exists, rev_parse_ok \in BOOLEAN :
          IF git_dir_exists \/ rev_parse_ok
          THEN /\ pc' = "get_staged"
               /\ console' = Append(console, "repository_detected")
               /\ UNCHANGED <<exit_code, outcome>>
          ELSE Exit("not_a_repository", <<"error_not_a_repository">>)
    /\ UNCHANGED <<openai_api_key, stats, api_reply, ai_summary, answer,
                   response, requests>>
    /\ UNCHANGED <<changeVars, readmeVars, truncVars>>

\* staged_files = self.get_staged_changes(); if not staged_files: sys.exit(1)
GetStagedChanges ==
    /\ pc = "get_staged"
    /\ \E out \in GitOutputs :
          /\ staged_files' = out.files
          /\ IF out.files = <<>>
             THEN Exit("no_staged_changes",
                       (IF out.ok THEN <<>> ELSE <<"error_getting_staged">>)
                       \o <<"warn_no_staged_changes">>)
             ELSE /\ pc' = "get_stats"
                  /\ console' = Append(console, "found_staged")
                  /\ UNCHANGED <<exit_code, outcome>>
    /\ UNCHANGED <<openai_api_key, stats, api_reply, ai_summary, answer,
                   response, requests>>
    /\ UNCHANGED <<lookups, categories, changes_data, summary>>
    /\ UNCHANGED <<readmeVars, truncVars>>

\* stats = self.get_file_stats(); categories = self.categorize_changes(...);
\* ai_summary = None; if self.openai_api_key:
GetStatsAndCategorize ==
    /\ pc = "get_stats"
    /\ \E st \in StatsOutputs : stats' = st
    /\ categories' = categorize_changes(staged_files)
    /\ ai_summary' = None
    /\ pc' = IF Truthy(openai_api_key) THEN "prepare" ELSE "generate"
    /\ UNCHANGED <<openai_api_key, api_reply, answer, response, exit_code,
                   outcome, requests, console>>
    /\ UNCHANGED <<staged_files, lookups, changes_data, summary>>
    /\ UNCHANGED <<readmeVars, truncVars>>

\* changes_data = self.prepare_changes_for_ai(staged_files); if changes_data:
PrepareForAI ==
    /\ pc = "prepare"
    /\ \E l \in [1..Len(staged_files) -> RunLookups] :
          LET data == prepare_changes_for_ai(staged_files, l)
          IN  /\ lookups' = l
              /\ changes_data' =
                    [i \in 1..Len(data) |->
                        [filename |-> data[i].filename, type |-> data[i].type]]
              /\ pc' = IF data # <<>> THEN "call_api" ELSE "generate"
    /\ UNCHANGED <<staged_files, categories, summary>>
    /\ UNCHANGED <<openai_api_key, stats, api_reply, ai_summary, answer,
                   response, exit_code, outcome, requests, console>>
    /\ UNCHANGED <<readmeVars, truncVars>>

\* ai_summary = self.call_openai_api(changes_data)
CallOpenAI ==
    /\ pc = "call_api"
    /\ \E reply \in ApiReplies :
          LET r == call_openai_api(openai_api_key, reply)
          IN  /\ api_reply' = reply
              /\ ai_summary' = r.summary
              /\ requests' = requests + r.sent
              /\ IF r.raised
                 THEN Exit("crashed", r.printed \o <<"traceback">>)
                 ELSE /\ pc' = "generate"
                      /\ console' = console \o r.printed
                      /\ UNCHANGED <<exit_code, outcome>>
    /\ UNCHANGED <<openai_api_key, stats, answer, response>>
    /\ UNCHANGED <<changeVars, readmeVars, truncVars>>

\* summary = self.generate_summary(categories, stats, ai_summary); print it
GenerateSummary ==
    /\ pc = "generate"
    /\ \E timestamp \in Dates :
          summary' = generate_summary(categories, stats, ai_summary, timestamp)
    /\ console' = Append(console, "generated_summary")
    /\ pc' = "confirm"
    /\ UNCHANGED <<openai_api_key, stats, api_reply, ai_summary, answer,
                   response, exit_code, outcome, requests>>
    /\ UNCHANGED <<staged_files, lookups, categories, changes_data>>
    /\ UNCHANGED <<readmeVars, truncVars>>

\* response = input(...).strip().lower(); if response in ['y', 'yes']:
\* self.update_readme(summary) else: sys.exit(0)
Confirm ==
    /\ pc = "confirm"
    /\ \E typed \in Answers :
          /\ answer' = typed
          /\ response' = Lower(Strip(typed))
          /\ IF IsAffirmative(response')
             THEN LET r == update_readme(readme, summary)
                  IN  /\ readme' = r.file
                      /\ raised' = r.raised
                      /\ applied' = IF r.raised THEN applied
                                    ELSE Append(applied, summary)
                      /\ IF r.raised THEN Exit("crashed", <<"traceback">>)
                         ELSE Exit("success", <<"updated_readme">>)
             ELSE /\ Exit("declined", <<"summary_not_added">>)
                  /\ UNCHANGED <<readme, raised, applied>>
    /\ UNCHANGED <<openai_api_key, stats, api_reply, ai_summary, requests>>
    /\ UNCHANGED <<changeVars, readme0, truncVars>>

\* input() raises EOFError: the standard input is closed
InputClosed ==
    /\ pc = "confirm"
    /\ Exit("crashed", <<"traceback">>)
    /\ UNCHANGED <<openai_api_key, stats, api_reply, ai_summary, answer,
                   response, requests>>
    /\ UNCHANGED <<changeVars, readmeVars, truncVars>>

Next ==
    \/ IsGitRepository
    \/ GetStagedChanges
    \/ GetStatsAndCategorize
    \/ PrepareForAI
    \/ CallOpenAI
    \/ GenerateSummary
    \/ Confirm
    \/ InputClosed

Spec == Init /\ [][Next]_vars

\* a message was printed
Printed(msg) == \E i \in 1..Len(console) : console[i] = msg

\* C2: a run in which the operator's answer, trimmed and lower-cased, is
\* neither y nor yes ends with README.md as it was, a missing one still
\* missing; and README.md differs from what it was only in a run that found
\* a repository and staged changes and got such an answer
C2_NoWriteWithoutConsent ==
    /\ (pc = "exit" /\ Lower(Strip(answer)) \notin { <<"y">>, <<"y","e","s">> })
          => readme = readme0
    /\ readme # readme0 =>
          /\ Printed("repository_detected")
          /\ staged_files # <<>>
          /\ Lower(Strip(answer)) \in { <<"y">>, <<"y","e","s">> }

\* C2's case: the operator typed something else than y or yes, "yeah", and
\* the run ended
C2_Witness ==
    /\ pc = "exit"
    /\ answer = <<"y","e","a","h">>
    /\ outcome = "declined"
    /\ readme = readme0

\* the four ways a run is said to end
ClaimedOutcomes ==
    {"not_a_repository", "no_staged_changes", "declined", "success"}

\* C3, as claimed: a run ends in one of four ways, and its exit status is
\* that of no other way
C3_DistinctExitSignals ==
    pc = "exit" =>
        /\ outcome \in ClaimedOutcomes
        /\ \A other \in ClaimedOutcomes \ {outcome} :
              exit_code # ExitCode(other)

\* the request failed: an exception, a status other than 200, or a body
\* without a completion
ApiFailed ==
    /\ api_reply.kind # "none"
    /\ ~(api_reply.kind = "response" /\ api_reply.status = 200
         /\ api_reply.body = "completion")

----------------------------------------------------------------------------
(* call_openai_api: the length check on one change, applied again and      *)
(* again                                                                   *)

\* how far from the limits the lengths of the texts range
TruncSlack == 2

\* how often the length check is applied to a text
MaxTruncations == 2

\* the lengths: the shortest, those around a limit, and those around the
\* length of a text that was cut
TruncLengths(limit) ==
    (0..1) \cup ((limit - TruncSlack)..(limit + TruncSlack))
    \cup ((limit + Len(TruncationMarker) - TruncSlack)
              ..(limit + Len(TruncationMarker) + TruncSlack))

\* the texts of a length: one letter repeated, and the marker repeated
TruncTexts(n) ==
    { Repeat("x", n),
      SubSeq([i \in 1..n |-> TruncationMarker[((i - 1) % 16) + 1]], 1, n) }

InitTrunc ==
    /\ change_type \in {"added", "modified", "renamed"}
    /\ text \in UNION {TruncTexts(n) : n \in TruncLengths(LimitFor(change_type))}
    /\ cut = text
    /\ truncations = 0
    /\ RunIdle /\ ChangeIdle /\ ReadmeIdle

\* the length check of call_openai_api, on the text it left the last time
ApplyLimit ==
    /\ truncations < MaxTruncations
    /\ cut' = Truncate(cut, LimitFor(change_type))
    /\ truncations' = truncations + 1
    /\ UNCHANGED <<change_type, text>>
    /\ UNCHANGED <<runVars, changeVars, readmeVars>>

NextTrunc == ApplyLimit

SpecTrunc == InitTrunc /\ [][NextTrunc]_vars

\* C10: however often the length check was applied, a text longer than the
\* limit (3,000 for an added file, 2,000 otherwise) has become its first
\* limit characters and the marker, and a text within the limit is as it was
C10_TruncationIdempotent ==
    truncations >= 1 =>
        LET limit == IF change_type = "added" THEN 3000 ELSE 2000
        IN  IF Len(text) > limit
            THEN /\ Len(cut) = limit + 16
                 /\ SubSeq(cut, 1, limit) = SubSeq(text, 1, limit)
                 /\ Drop(cut, limit + 1) =
                       <<"\n",".",".","."," ","(","t","r","u","n","c","a","t",
                         "e","d",")">>
            ELSE cut = text

\* C10's case: an added file of 3,001 characters, cut and cut again
C10_Witness ==
    /\ truncations = 2
    /\ change_type = "added"
    /\ Len(text) = 3001
    /\ Len(cut) = 3016

====
